---- MODULE Spec2Model ----
(***************************************************************************)
(* Model of orchestrator/gorc/src/commands/query/eth.rs: the `eth`         *)
(* subcommand enum and the Runnable implementations of Eth, Balance and    *)
(* Contract.  One behaviour is one invocation of one Runnable.             *)
(***************************************************************************)
EXTENDS Naturals, Sequences, FiniteSets

VARIABLES
    entry,      \* the Runnable whose run() is invoked: "Eth", "Balance", "Contract"
    name,       \* subcommand name token handed to the Eth options parser
    self,       \* the parsed argument set [free, help] the handler borrows (&self)
    self0,      \* the argument set as it was when the invocation started
    cmd,        \* the Eth enum value built by the parser ("None" before/without one)
    pc,         \* control position
    key_name,   \* the local of Balance::run: <<>> until captured, <<token>> after
    called,     \* handler bodies entered so far, in order
    stderr      \* panic messages written by the process

vars == <<entry, name, self, self0, cmd, pc, key_name, called, stderr>>

\* ---------------------------------------------------------------- bounds
MaxFree == 2

Tokens == {"a", "b"}

Names == {"balance", "contract", "bogus"}

RECURSIVE SeqsUpTo(_)
SeqsUpTo(n) ==
    IF n = 0 THEN {<<>>}
    ELSE LET shorter == SeqsUpTo(n - 1)
         IN  shorter \cup {Append(s, t) : s \in {q \in shorter : Len(q) = n - 1}, t \in Tokens}

\* struct Balance / struct Contract: free: Vec<String>, help: bool
ArgSets == [free : SeqsUpTo(MaxFree), help : BOOLEAN]

Range(s) == {s[i] : i \in 1..Len(s)}

\* ---------------------------------------------------------------- enum Eth
EthVariantsWithContract == {"Balance", "Contract"}

\* pub enum Eth { Balance(Balance) }
EthVariants == {"Balance"}

\* the command name the Options derive gives a variant
CommandName(v) == IF v = "Balance" THEN "balance" ELSE "contract"

\* the variant a subcommand name resolves to, "None" when there is none
Resolve(n) ==
    IF \E v \in EthVariants : CommandName(v) = n
    THEN CHOOSE v \in EthVariants : CommandName(v) = n
    ELSE "None"

\* ---------------------------------------------------------------- Balance::run
Balance_assert_ge(s) == Len(s.free) >= 1

Balance_assert_two(s) == Len(s.free) = 2

Balance_assert_help(s) == s.help \/ Len(s.free) = 1

\* assert!(self.free.len() == 1);
Balance_assert(s) == Len(s.free) = 1

\* self.free[0]: indexing panics when the vector is empty
IndexInBounds(s) == Len(s.free) >= 1

\* the outcome of Balance::run on an argument set
Balance_outcome(s) ==
    IF Balance_assert(s) /\ IndexInBounds(s) THEN "done" ELSE "aborted"

\* ---------------------------------------------------------------- Init
Init ==
    /\ entry \in {"Eth", "Balance", "Contract"}
    /\ name \in Names
    /\ entry = "Balance" => name = "balance"
    /\ entry = "Contract" => name = "contract"
    /\ self \in ArgSets
    /\ self0 = self
    /\ cmd = "None"
    /\ pc = IF entry = "Eth" THEN "parse"
            ELSE IF entry = "Balance" THEN "Balance_run" ELSE "Contract_run"
    /\ key_name = <<>>
    /\ called = <<>>
    /\ stderr = <<>>

\* ---------------------------------------------------------------- actions
\* #[derive(Command, Options)] on Eth: the name selects the variant
Parse ==
    /\ pc = "parse"
    /\ cmd' = Resolve(name)
    /\ pc' = IF Resolve(name) = "None" THEN "rejected" ELSE "Eth_run"
    /\ UNCHANGED <<entry, name, self, self0, key_name, called, stderr>>

Eth_run_delegate ==
    /\ pc = "Eth_run"
    /\ called' = Append(called, "Eth")
    /\ pc' = IF cmd = "Balance" THEN "Balance_run" ELSE "Contract_run"
    /\ UNCHANGED <<entry, name, self, self0, cmd, key_name, stderr>>

\* impl Runnable for Eth: fn run(&self) { /* Your code goes here */ }
Eth_run ==
    /\ pc = "Eth_run"
    /\ called' = Append(called, "Eth")
    /\ pc' = "done"
    /\ UNCHANGED <<entry, name, self, self0, cmd, key_name, stderr>>

\* Balance::run, first statement: the assertion
Balance_run_assert ==
    /\ pc = "Balance_run"
    /\ called' = Append(called, "Balance")
    /\ IF Balance_assert(self)
       THEN /\ pc' = "Balance_clone"
            /\ UNCHANGED stderr
       ELSE /\ pc' = "aborted"
            /\ stderr' = Append(stderr, "assertion failed: self.free.len() == 1")
    /\ UNCHANGED <<entry, name, self, self0, cmd, key_name>>

Balance_run_clone_take ==
    /\ pc = "Balance_clone"
    /\ IF IndexInBounds(self)
       THEN /\ key_name' = <<self.free[1]>>
            /\ self' = [self EXCEPT !.free = Tail(@)]
            /\ pc' = "done"
            /\ UNCHANGED stderr
       ELSE /\ pc' = "aborted"
            /\ stderr' = Append(stderr, "index out of bounds")
            /\ UNCHANGED <<key_name, self>>
    /\ UNCHANGED <<entry, name, self0, cmd, called>>

Balance_run_clone_again ==
    /\ pc = "Balance_clone"
    /\ key_name' = <<self.free[1]>>
    /\ pc' = "Balance_clone"
    /\ UNCHANGED <<entry, name, self, self0, cmd, called, stderr>>

\* Balance::run, second statement: let key_name = self.free[0].clone(); return
Balance_run_clone ==
    /\ pc = "Balance_clone"
    /\ IF IndexInBounds(self)
       THEN /\ key_name' = <<self.free[1]>>
            /\ pc' = "done"
            /\ UNCHANGED stderr
       ELSE /\ pc' = "aborted"
            /\ stderr' = Append(stderr, "index out of bounds")
            /\ UNCHANGED key_name
    /\ UNCHANGED <<entry, name, self, self0, cmd, called>>

Contract_run_asserting ==
    /\ pc = "Contract_run"
    /\ called' = Append(called, "Contract")
    /\ IF Balance_assert(self)
       THEN /\ pc' = "done"
            /\ UNCHANGED stderr
       ELSE /\ pc' = "aborted"
            /\ stderr' = Append(stderr, "assertion failed: self.free.len() == 1")
    /\ UNCHANGED <<entry, name, self, self0, cmd, key_name>>

\* impl Runnable for Contract: fn run(&self) { }
Contract_run ==
    /\ pc = "Contract_run"
    /\ called' = Append(called, "Contract")
    /\ pc' = "done"
    /\ UNCHANGED <<entry, name, self, self0, cmd, key_name, stderr>>

Next ==
    \/ Parse
    \/ Eth_run
    \/ Balance_run_assert
    \/ Balance_run_clone
    \/ Contract_run

Spec == Init /\ [][Next]_vars

\* run() is synchronous: a started invocation keeps executing
FairSpec == Spec /\ WF_vars(Next)

Finished == pc \in {"done", "aborted"}

\* ---------------------------------------------------------------- properties

\* C1: Balance::run on an argument set with exactly one positional token,
\* with either help flag, never aborts, and when it has returned the
\* captured key name is that token.
C1_BalanceAcceptsOneToken ==
    (entry = "Balance" /\ Len(self0.free) = 1) =>
        /\ pc # "aborted"
        /\ pc = "done" => key_name = <<self0.free[1]>>

C1_Witness ==
    /\ entry = "Balance"
    /\ Len(self0.free) = 1
    /\ self0.help
    /\ pc = "done"
    /\ key_name = <<"b">>

\* C2: Balance::run on an argument set with zero or more than one positional
\* token ends in the fatal abort and never reaches the capture of a key name.
C2_BalanceAbortsOtherwise ==
    (entry = "Balance" /\ Len(self0.free) # 1) =>
        /\ pc # "Balance_clone"
        /\ pc # "done"
        /\ key_name = <<>>
        /\ called # <<>> => pc = "aborted"

C2_Witness ==
    /\ entry = "Balance"
    /\ Len(self0.free) > 1
    /\ pc = "aborted"
    /\ stderr # <<>>

\* C3: an invocation of Eth::run that resolved to the Balance variant has
\* executed Balance::run on the parsed arguments by the time it ends.
C3_DispatchInvokesHandler ==
    (entry = "Eth" /\ cmd = "Balance" /\ Finished) =>
        \E i \in 1..Len(called) : called[i] = "Balance"

\* C4: an invocation of `eth balance` through Eth::run whose Balance variant
\* carries zero or more than one positional token ends in the fatal abort
\* and does not complete normally.
C4_EthBalanceRequiresOneToken ==
    (entry = "Eth" /\ cmd = "Balance" /\ Len(self0.free) # 1) =>
        /\ pc # "done"
        /\ Finished => pc = "aborted"

\* C5: Eth::run on any value of the Eth enum completes normally, writes
\* nothing, never aborts and enters no other handler.
C5_EthRunIsNoOp ==
    (entry = "Eth" /\ cmd \in EthVariants) =>
        /\ pc \in {"Eth_run", "done"}
        /\ stderr = <<>>
        /\ key_name = <<>>
        /\ Range(called) \subseteq {"Eth"}
        /\ pc = "done" => called = <<"Eth">>

C5_Witness ==
    /\ entry = "Eth"
    /\ cmd = "Balance"
    /\ Len(self0.free) = 0
    /\ pc = "done"
    /\ called = <<"Eth">>

\* C6: in an invocation that starts at Eth, whatever the subcommand name and
\* the tokens, no Contract value is built by the parser and Contract::run is
\* not entered.
C6_ContractUnreachable ==
    entry = "Eth" =>
        /\ cmd # "Contract"
        /\ pc # "Contract_run"
        /\ "Contract" \notin Range(called)

C6_Witness ==
    /\ entry = "Eth"
    /\ name = "contract"
    /\ pc = "rejected"
    /\ cmd = "None"

\* C7: the fatal abort is reached exactly when the handler is Balance::run
\* and the number of positional tokens differs from 1; Eth::run and
\* Contract::run never abort, and a handler ends only by returning or by
\* aborting.
C7_OnlyOneFailureMode ==
    /\ pc = "aborted" => (entry = "Balance" /\ Len(self0.free) # 1)
    /\ (Finished /\ entry = "Balance" /\ Len(self0.free) # 1) => pc = "aborted"
    /\ (stderr # <<>>) = (pc = "aborted")
    /\ called # <<>> =>
           pc \in {"done", "aborted"} \cup (IF entry = "Balance" THEN {"Balance_clone"} ELSE {})

C7_Witness ==
    /\ entry = "Contract"
    /\ Len(self0.free) # 1
    /\ pc = "done"
    /\ called = <<"Contract">>

\* the number of steps an invocation can still take from a control position
StepsLeft(p) ==
    IF p \in {"parse", "Balance_run"} THEN 2
    ELSE IF p \in {"Eth_run", "Balance_clone", "Contract_run"} THEN 1
    ELSE 0

\* C8: every invocation reaches a terminal outcome, every step brings it
\* strictly closer to one (no loop, no retry), at most one handler body is
\* entered, and no step is taken after a terminal outcome.
C8_SingleShot ==
    /\ (pc \in {"Eth_run", "Balance_run", "Contract_run"}) ~> Finished
    /\ [][StepsLeft(pc') < StepsLeft(pc)]_vars
    /\ [](Len(called) <= 1)
    /\ [][~Finished]_vars

C8_Witness ==
    /\ Finished
    /\ entry = "Balance"
    /\ Len(called) = 1
    /\ key_name # <<>>

\* C9: the outcome of Balance::run depends on the number of positional
\* tokens only: every argument set with as many tokens as the one that was
\* run, whatever its tokens and help flag, has the same outcome; with help
\* set and no token the run aborts.
C9_OutcomeDependsOnCountOnly ==
    (entry = "Balance" /\ Finished) =>
        /\ \A s2 \in ArgSets :
               Len(s2.free) = Len(self0.free) => Balance_outcome(s2) = pc
        /\ (self0.help /\ Len(self0.free) = 0) => pc = "aborted"

C9_Witness ==
    /\ entry = "Balance"
    /\ self0.help
    /\ Len(self0.free) = 0
    /\ pc = "aborted"

\* C10: no handler changes the parsed arguments: at every point of every
\* invocation the tokens and the help flag are what they were at the start,
\* the key name is a copy of the first token, and only Balance::run makes one.
C10_ArgumentsUnchanged ==
    /\ self = self0
    /\ key_name # <<>> =>
           /\ entry = "Balance"
           /\ Len(self.free) >= 1
           /\ key_name = <<self.free[1]>>

C10_Witness ==
    /\ entry = "Balance"
    /\ pc = "done"
    /\ key_name = <<"a">>
    /\ self.free = <<"a">>

====
